---- MODULE Spec2Model ----
(***************************************************************************)
(* Model of app.py, the flow-map dashboard: the data merge                  *)
(* (prepare_merged_data), the flow ranking (get_top_flows_global), the      *)
(* bubble aggregation and the arc-width scale, run as one script pass.      *)
(*                                                                          *)
(* A table (DataFrame) is a sequence of rows in index order.  A row is a    *)
(* record of its columns plus a field n, the number of consecutive          *)
(* identical rows it stands for (run-length form); n = 1 is one row.        *)
(* Every operation below acts on all n copies alike, so a table of more     *)
(* than 500000 rows can be represented.                                     *)
(***************************************************************************)
EXTENDS Integers, Sequences, FiniteSets, TLC

VARIABLES pc, warning, main_df, countries_df, nace_df,
          selected_origin, selected_dest, merged_df,
          selected_row, selected_col, num_flows, sector_filtered_df,
          arc_df, flow_summary, bubble_df, rendered

vars == <<pc, warning, main_df, countries_df, nace_df,
          selected_origin, selected_dest, merged_df,
          selected_row, selected_col, num_flows, sector_filtered_df,
          arc_df, flow_summary, bubble_df, rendered>>

(***************************************************************************)
(* Bounds of the model.                                                     *)
(***************************************************************************)
MaxTopN == 6          \* num_flows is drawn from 1..MaxTopN (within [1,50])
MaxRows == 2          \* rows of the flow table in the merge and pipeline runs
BigRun == 500000      \* length of the long run of identical rows in the merge runs

(***************************************************************************)
(* Program constants.                                                       *)
(***************************************************************************)
allowed_countries ==
    << "AT", "BE", "BG", "CH", "CY", "CZ", "DE", "DK", "EE", "ES", "FI", "FR",
       "GB", "GR", "HR", "HU", "IE", "IT", "LT", "LU", "LV", "NL",
       "NO", "PL", "PT", "RO", "SE", "SI", "SK" >>
SampleCeiling == 500000     \* len(filtered_df) > 500000
FallbackPairs == 5          \* fewer than 5 distinct pairs: fall back
MinNumFlows == 1            \* number_input min_value
MaxNumFlows == 50           \* number_input max_value
MinArcWidth == 1
ArcWidthSpan == 3           \* width = 1 + normalized * 3

NaN == -999                 \* a missing number (coordinates, flow_total)
NaNName == "NaN"            \* a missing sector name

(***************************************************************************)
(* Sequence helpers.                                                        *)
(***************************************************************************)
Range(s) == { s[i] : i \in 1..Len(s) }

Min2(a, b) == IF a <= b THEN a ELSE b

Max2(a, b) == IF a >= b THEN a ELSE b

\* s.head(k)
HeadN(s, k) == SubSeq(s, 1, Min2(k, Len(s)))

RECURSIVE Concat(_)
Concat(ss) == IF ss = << >> THEN << >> ELSE Head(ss) \o Concat(Tail(ss))

RemoveAt(s, i) == SubSeq(s, 1, i - 1) \o SubSeq(s, i + 1, Len(s))

\* number of rows of a table: len(df)
RECURSIVE NumRows(_)
NumRows(df) == IF df = << >> THEN 0 ELSE Head(df).n + NumRows(Tail(df))

\* sum of a value column over the rows of a table
RECURSIVE SumObs(_)
SumObs(df) ==
    IF df = << >> THEN 0 ELSE Head(df).obsValue * Head(df).n + SumObs(Tail(df))

\* position of a country code in lexicographic order (allowed_countries is sorted)
CodeRank(c) == CHOOSE i \in 1..Len(allowed_countries) : allowed_countries[i] = c

IsIn(x, list) == x \in list

\* variant: the values are left in their incoming order
sort_values_unsorted(s) == s

\* Series.sort_values(ascending=False): descending by obsValue, equal values
\* keep their incoming order
RECURSIVE sort_values_desc(_)
sort_values_desc(s) ==
    IF s = << >> THEN << >>
    ELSE LET i == CHOOSE j \in 1..Len(s) :
                    /\ \A k \in 1..Len(s) : s[k].obsValue <= s[j].obsValue
                    /\ \A k \in 1..(j - 1) : s[k].obsValue < s[j].obsValue
         IN  << s[i] >> \o sort_values_desc(RemoveAt(s, i))

\* the first k rows of a run-length table
RECURSIVE TakeRows(_, _)
TakeRows(df, k) ==
    IF df = << >> \/ k <= 0 THEN << >>
    ELSE IF Head(df).n <= k
         THEN << Head(df) >> \o TakeRows(Tail(df), k - Head(df).n)
         ELSE << [Head(df) EXCEPT !.n = k] >>

\* DataFrame.nlargest(k, 'obsValue'): rows ordered by obsValue descending,
\* first k of them (keep='first')
nlargest(df, k) == TakeRows(sort_values_desc(df), k)

(***************************************************************************)
(* Source loading.  A raw flow row has the columns refArea,                 *)
(* counterpartArea, rowIi, colIi, obsValue; a row of the countries file     *)
(* has the columns code (2nd), lat (3rd), lon (4th); a row of the sector    *)
(* file has Code and Name.                                                  *)
(***************************************************************************)
AllowedSet == Range(allowed_countries)

load_main(raw) ==
    SelectSeq(raw, LAMBDA r : /\ IsIn(r.refArea, AllowedSet)
                              /\ IsIn(r.counterpartArea, AllowedSet))

load_countries(raw) == SelectSeq(raw, LAMBDA c : IsIn(c.code, AllowedSet))

origin_options(df) == { df[i].refArea : i \in 1..Len(df) }

dest_options(df) == { df[i].counterpartArea : i \in 1..Len(df) }

(***************************************************************************)
(* prepare_merged_data.                                                     *)
(***************************************************************************)
\* variant: domestic flows are not excluded
filter_flows_domestic(df, sel_origin, sel_dest) ==
    SelectSeq(df, LAMBDA r : /\ IsIn(r.refArea, sel_origin)
                             /\ IsIn(r.counterpartArea, sel_dest))

\* rows of main_df with origin and destination selected, domestic flows excluded
filter_flows(df, sel_origin, sel_dest) ==
    SelectSeq(df, LAMBDA r : /\ IsIn(r.refArea, sel_origin)
                             /\ IsIn(r.counterpartArea, sel_dest)
                             /\ r.refArea # r.counterpartArea)

\* the sampling step: more than 500000 rows are cut to the 500000 largest
sample_flows(df) ==
    IF NumRows(df) > SampleCeiling THEN nlargest(df, SampleCeiling) ELSE df

\* variant: an unmatched code gets the coordinate (0, 0)
LocationMatches_zero(code, locations) ==
    LET ms == SelectSeq(locations, LAMBDA c : c.code = code)
    IN  IF ms = << >> THEN << [lat |-> 0, lon |-> 0] >>
        ELSE [j \in 1..Len(ms) |-> [lat |-> ms[j].lat, lon |-> ms[j].lon]]

\* the rows a left join on a country code gives for one left row: one per
\* matching location, or a single row of missing coordinates
LocationMatches(code, locations) ==
    LET ms == SelectSeq(locations, LAMBDA c : c.code = code)
    IN  IF ms = << >> THEN << [lat |-> NaN, lon |-> NaN] >>
        ELSE [j \in 1..Len(ms) |-> [lat |-> ms[j].lat, lon |-> ms[j].lon]]

NameMatches(code, taxonomy) ==
    LET ms == SelectSeq(taxonomy, LAMBDA t : t.Code = code)
    IN  IF ms = << >> THEN << NaNName >>
        ELSE [j \in 1..Len(ms) |-> ms[j].Name]

merge_origin(df, locations) ==
    Concat([i \in 1..Len(df) |->
        LET ms == LocationMatches(df[i].refArea, locations)
        IN  [j \in 1..Len(ms) |->
                df[i] @@ [origin_lat |-> ms[j].lat, origin_lon |-> ms[j].lon]]])

merge_dest(df, locations) ==
    Concat([i \in 1..Len(df) |->
        LET ms == LocationMatches(df[i].counterpartArea, locations)
        IN  [j \in 1..Len(ms) |->
                df[i] @@ [dest_lat |-> ms[j].lat, dest_lon |-> ms[j].lon]]])

merge_row_sector(df, taxonomy) ==
    Concat([i \in 1..Len(df) |->
        LET ms == NameMatches(df[i].rowIi, taxonomy)
        IN  [j \in 1..Len(ms) |-> df[i] @@ [rowIi_name |-> ms[j]]]])

merge_col_sector(df, taxonomy) ==
    Concat([i \in 1..Len(df) |->
        LET ms == NameMatches(df[i].colIi, taxonomy)
        IN  [j \in 1..Len(ms) |-> df[i] @@ [colIi_name |-> ms[j]]]])

prepare_merged_data(df, locations, taxonomy, sel_origin, sel_dest) ==
    LET filtered_df == sample_flows(filter_flows(df, sel_origin, sel_dest))
    IN  merge_col_sector(
            merge_row_sector(
                merge_dest(merge_origin(filtered_df, locations), locations),
                taxonomy),
            taxonomy)

\* sorted(merged_df[col].dropna().unique())
row_name_options(df) == { df[i].rowIi_name : i \in 1..Len(df) } \ { NaNName }

col_name_options(df) == { df[i].colIi_name : i \in 1..Len(df) } \ { NaNName }

(***************************************************************************)
(* Ranking.                                                                 *)
(***************************************************************************)
Pair(r) == << r.refArea, r.counterpartArea >>

PairsOf(df) == { Pair(df[i]) : i \in 1..Len(df) }

\* the (refArea, counterpartArea) keys in the order groupby emits them
PairBefore(p, q) ==
    \/ CodeRank(p[1]) < CodeRank(q[1])
    \/ p[1] = q[1] /\ CodeRank(p[2]) < CodeRank(q[2])

RECURSIVE SortedPairs(_)
SortedPairs(ps) ==
    IF ps = {} THEN << >>
    ELSE LET p == CHOOSE x \in ps : \A y \in ps \ {x} : PairBefore(x, y)
         IN  << p >> \o SortedPairs(ps \ {p})

\* df.groupby(["refArea", "counterpartArea"])["obsValue"].sum()
groupby_pair_sum(df) ==
    LET keys == SortedPairs(PairsOf(df))
    IN  [i \in 1..Len(keys) |->
            [refArea |-> keys[i][1], counterpartArea |-> keys[i][2],
             obsValue |-> SumObs(SelectSeq(df, LAMBDA r : Pair(r) = keys[i]))]]

\* the rows whose sector names are both selected
sector_filter(df, sel_row, sel_col) ==
    SelectSeq(df, LAMBDA r : /\ IsIn(r.rowIi_name, sel_row)
                             /\ IsIn(r.colIi_name, sel_col))

\* variant: the join keeps the rows of every pair
merge_pairs_keep_all(df, flows) == df

\* left.merge(flows[["refArea", "counterpartArea"]], how="inner")
merge_pairs(df, flows) == SelectSeq(df, LAMBDA r : Pair(r) \in PairsOf(flows))

\* variant: the fallback threshold is 3 pairs
needs_fallback_three(detailed) ==
    detailed = << >> \/ Cardinality(PairsOf(detailed)) < 3

\* the candidate set is too thin: empty, or fewer than 5 distinct pairs
needs_fallback(detailed) ==
    detailed = << >> \/ Cardinality(PairsOf(detailed)) < FallbackPairs

\* variant: the global ranking is not cut to top_n
global_top_flows_uncut(df, top_n) == sort_values_desc(groupby_pair_sum(df))

global_top_flows(df, top_n) == HeadN(sort_values_desc(groupby_pair_sum(df)), top_n)

\* variant: the fallback ranks the pairs over all rows, not the sector-filtered ones
sector_top_flows_all_rows(df, sel_row, sel_col, top_n) ==
    LET sector_flows == HeadN(sort_values_desc(groupby_pair_sum(df)), top_n)
    IN  [detail  |-> merge_pairs(sector_filter(df, sel_row, sel_col), sector_flows),
         summary |-> sector_flows]

\* lines 314-334: the ranking and the detail rows of the sector-filtered rows alone
sector_top_flows(df, sel_row, sel_col, top_n) ==
    LET sector_flows ==
            HeadN(sort_values_desc(groupby_pair_sum(sector_filter(df, sel_row, sel_col))),
                  top_n)
    IN  [detail  |-> merge_pairs(sector_filter(df, sel_row, sel_col), sector_flows),
         summary |-> sector_flows]

get_top_flows_global(df, sel_row, sel_col, top_n) ==
    LET all_flows == global_top_flows(df, top_n)
        top_flows_detailed == merge_pairs(sector_filter(df, sel_row, sel_col), all_flows)
    IN  IF needs_fallback(top_flows_detailed)
        THEN sector_top_flows(df, sel_row, sel_col, top_n)
        ELSE [detail  |-> top_flows_detailed,
              summary |-> sort_values_desc(groupby_pair_sum(top_flows_detailed))]

(***************************************************************************)
(* Bubble aggregation.                                                      *)
(***************************************************************************)
\* flow_summary["counterpartArea"].unique() if not flow_summary.empty else []
displayed_destinations(summary) == { summary[i].counterpartArea : i \in 1..Len(summary) }

DestKey(r) == << r.counterpartArea, r.dest_lat, r.dest_lon >>

DestKeyBefore(p, q) ==
    \/ CodeRank(p[1]) < CodeRank(q[1])
    \/ p[1] = q[1] /\ p[2] < q[2]
    \/ p[1] = q[1] /\ p[2] = q[2] /\ p[3] < q[3]

RECURSIVE SortedDestKeys(_)
SortedDestKeys(ks) ==
    IF ks = {} THEN << >>
    ELSE LET p == CHOOSE x \in ks : \A y \in ks \ {x} : DestKeyBefore(x, y)
         IN  << p >> \o SortedDestKeys(ks \ {p})

\* df.groupby(["counterpartArea", "dest_lat", "dest_lon"], as_index=False)
\*   ["obsValue"].sum(): rows with a missing key column form no group
groupby_dest_sum(df) ==
    LET keyed == SelectSeq(df, LAMBDA r : r.dest_lat # NaN /\ r.dest_lon # NaN)
        keys  == SortedDestKeys({ DestKey(keyed[i]) : i \in 1..Len(keyed) })
    IN  [i \in 1..Len(keys) |->
            [counterpartArea |-> keys[i][1], dest_lat |-> keys[i][2],
             dest_lon |-> keys[i][3],
             obsValue |-> SumObs(SelectSeq(keyed, LAMBDA r : DestKey(r) = keys[i]))]]

\* variant: the bubbles are not restricted to the displayed destinations
bubble_source_all(filtered, summary) == filtered

\* the rows the bubbles are summed over
bubble_source(filtered, summary) ==
    SelectSeq(filtered, LAMBDA r : IsIn(r.counterpartArea, displayed_destinations(summary)))

prepare_bubbles(filtered, summary) ==
    sort_values_desc(groupby_dest_sum(bubble_source(filtered, summary)))

(***************************************************************************)
(* Arc width.                                                               *)
(***************************************************************************)
RECURSIVE Pow(_, _)
Pow(b, e) == IF e = 0 THEN 1 ELSE b * Pow(b, e - 1)

\* 3 * (ln v - ln mn) / (ln mx - ln mn) >= k, in integers:
\* v^3 * mn^k >= mx^k * mn^3, with the common power of mn cancelled
ScaledLogAtLeast(v, mn, mx, k) ==
    IF k <= ArcWidthSpan
    THEN Pow(v, ArcWidthSpan) >= Pow(mx, k) * Pow(mn, ArcWidthSpan - k)
    ELSE Pow(v, ArcWidthSpan) * Pow(mn, k - ArcWidthSpan) >= Pow(mx, k)

\* int(normalized * 3) for normalized >= 0
RECURSIVE ScaledLogFloor(_, _, _, _)
ScaledLogFloor(v, mn, mx, k) ==
    IF ScaledLogAtLeast(v, mn, mx, k + 1) THEN ScaledLogFloor(v, mn, mx, k + 1) ELSE k

\* variant: the scaled value is added to a base width of 2
calculate_arc_width_base2(obs_value, max_value, min_value) ==
    IF max_value = min_value THEN 1
    ELSE LET safe_obs == Max2(obs_value, 1)
             safe_min == Max2(min_value, 1)
             safe_max == Max2(max_value, 1)
         IN  IF safe_max = safe_min THEN 1
             ELSE IF safe_obs < safe_min THEN 1
             ELSE Max2(MinArcWidth, 2 + ScaledLogFloor(safe_obs, safe_min, safe_max, 0))

calculate_arc_width(obs_value, max_value, min_value) ==
    IF max_value = min_value THEN 1
    ELSE LET safe_obs == Max2(obs_value, 1)
             safe_min == Max2(min_value, 1)
             safe_max == Max2(max_value, 1)
         IN  IF safe_max = safe_min THEN 1
             ELSE IF safe_obs < safe_min THEN 1
             ELSE Max2(MinArcWidth,
                       MinArcWidth + ScaledLogFloor(safe_obs, safe_min, safe_max, 0))

\* f"{x['refArea']}_{x['counterpartArea']}"
flow_key(r) == r.refArea \o "_" \o r.counterpartArea

\* dict(zip(keys, values)): a later entry of the same key replaces an earlier one
flow_mapping(summary) ==
    [k \in { flow_key(summary[i]) : i \in 1..Len(summary) } |->
        LET last == CHOOSE i \in 1..Len(summary) :
                        /\ flow_key(summary[i]) = k
                        /\ \A j \in (i + 1)..Len(summary) : flow_key(summary[j]) # k
        IN  summary[last].obsValue]

\* Series.map(dict): a key the dict lacks maps to NaN
flow_total(r, mapping) ==
    IF flow_key(r) \in DOMAIN mapping THEN mapping[flow_key(r)] ELSE NaN

RECURSIVE MaxObs(_)
MaxObs(s) == IF Len(s) = 1 THEN s[1].obsValue ELSE Max2(s[1].obsValue, MaxObs(Tail(s)))

RECURSIVE MinObs(_)
MinObs(s) == IF Len(s) = 1 THEN s[1].obsValue ELSE Min2(s[1].obsValue, MinObs(Tail(s)))

add_arc_widths(detail, summary) ==
    LET max_flow == MaxObs(summary)
        min_flow == MinObs(summary)
        mapping  == flow_mapping(summary)
    IN  [i \in 1..Len(detail) |->
            detail[i] @@
            [flow_key   |-> flow_key(detail[i]),
             flow_total |-> flow_total(detail[i], mapping),
             arc_width  |-> calculate_arc_width(flow_total(detail[i], mapping),
                                                max_flow, min_flow)]]

\* some row found no total: int(nan) raises
arc_width_fails(detail, summary) ==
    \E i \in 1..Len(detail) : flow_total(detail[i], flow_mapping(summary)) = NaN

(***************************************************************************)
(* Inputs.                                                                  *)
(***************************************************************************)
MaxValue == 2         \* largest obsValue of an input row

\* sequences over S of length at most k
SeqsUpTo(S, k) == UNION { [1..m -> S] : m \in 0..k }

\* the countries file: one location per code, "US" is not an allowed country
Locations ==
    { << [code |-> "DE", lat |-> 51, lon |-> 10], [code |-> "US", lat |-> 38, lon |-> -97] >>,
      << [code |-> "FR", lat |-> 46, lon |-> 2], [code |-> "DE", lat |-> 51, lon |-> 10] >> }

\* the sector file after load_nace: sector "B" has no name
Taxonomy == << [Code |-> "A", Name |-> "Agriculture"] >>

FullTaxonomy ==
    << [Code |-> "A", Name |-> "Agriculture"], [Code |-> "B", Name |-> "Construction"] >>

\* flow rows of the pipeline runs
PipelineRows ==
    { [refArea |-> p[1], counterpartArea |-> p[2], rowIi |-> c[1], colIi |-> c[2],
       obsValue |-> 1, n |-> 1] :
        p \in { <<"DE", "FR">>, <<"FR", "DE">>, <<"DE", "DE">> },
        c \in { <<"A", "A">>, <<"A", "B">>, <<"B", "A">> } }

\* flow rows of the merge runs
MergeRows ==
    { [refArea |-> p[1], counterpartArea |-> p[2], rowIi |-> c, colIi |-> "A",
       obsValue |-> v, n |-> 1] :
        p \in { <<"DE", "FR">>, <<"FR", "DE">>, <<"DE", "DE">>, <<"US", "DE">> },
        c \in { "A", "B" }, v \in 1..MaxValue }

\* a table whose first row may stand for a long run of identical rows
WithRun(t, k) == IF t = << >> THEN t ELSE [t EXCEPT ![1].n = k]

\* flow rows of the ranking runs: per pair of three countries, none, a row of
\* sector A, a row of sector B, or a row of each
RankPairs ==
    << <<"DE", "FR">>, <<"DE", "IT">>, <<"FR", "DE">>,
       <<"FR", "IT">>, <<"IT", "DE">>, <<"IT", "FR">> >>

RankRow(p, sector, v) ==
    [refArea |-> p[1], counterpartArea |-> p[2], rowIi |-> sector, colIi |-> "A",
     obsValue |-> v, n |-> 1]

Profile(p, k) ==
    CASE k = 0 -> << >>
      [] k = 1 -> << RankRow(p, "A", MaxValue) >>
      [] k = 2 -> << RankRow(p, "B", 1) >>
      [] k = 3 -> << RankRow(p, "A", 1), RankRow(p, "B", MaxValue) >>

RankTables ==
    { Concat([i \in 1..Len(RankPairs) |-> Profile(RankPairs[i], f[i])]) :
        f \in [1..Len(RankPairs) -> 0..3] }

RankLocations ==
    << [code |-> "DE", lat |-> 51, lon |-> 10], [code |-> "FR", lat |-> 46, lon |-> 2] >>

(***************************************************************************)
(* The script pass.                                                         *)
(***************************************************************************)
Blank ==
    /\ warning = ""
    /\ selected_origin = {} /\ selected_dest = {}
    /\ selected_row = {} /\ selected_col = {}
    /\ num_flows = 25
    /\ sector_filtered_df = << >>
    /\ arc_df = << >> /\ flow_summary = << >> /\ bubble_df = << >>
    /\ rendered = FALSE

\* the state after the three tables are loaded
Init ==
    /\ \E raw \in SeqsUpTo(PipelineRows, MaxRows) : main_df = load_main(raw)
    /\ countries_df = load_countries(RankLocations)
    /\ nace_df = Taxonomy
    /\ merged_df = << >>
    /\ pc = "countries"
    /\ Blank

InitMerge ==
    /\ \E raw \in SeqsUpTo(MergeRows, MaxRows) : \E k \in {1, BigRun} :
           main_df = load_main(WithRun(raw, k))
    /\ \E loc \in Locations : countries_df = load_countries(loc)
    /\ nace_df = Taxonomy
    /\ merged_df = << >>
    /\ pc = "countries"
    /\ Blank

\* the state after the merge of a three-country table with every country selected
InitRank ==
    /\ \E raw \in RankTables : main_df = load_main(raw)
    /\ countries_df = load_countries(RankLocations)
    /\ nace_df = FullTaxonomy
    /\ merged_df = prepare_merged_data(main_df, countries_df, nace_df,
                                       origin_options(main_df), dest_options(main_df))
    /\ pc = "sectors"
    /\ Blank

Stop(msg) == pc' = "stopped" /\ warning' = msg

\* lines 119-153: the country selections and their emptiness checks
SelectCountries ==
    /\ pc = "countries"
    /\ \E so \in SUBSET origin_options(main_df) : \E sd \in SUBSET dest_options(main_df) :
        /\ selected_origin' = so
        /\ selected_dest' = sd
        /\ IF so = {} THEN Stop("Please select at least one origin country.")
           ELSE IF sd = {} THEN Stop("Please select at least one destination country.")
           ELSE pc' = "merge" /\ UNCHANGED warning
    /\ UNCHANGED <<main_df, countries_df, nace_df, merged_df, selected_row, selected_col,
                   num_flows, sector_filtered_df, arc_df, flow_summary, bubble_df, rendered>>

\* line 208
PrepareMergedData ==
    /\ pc = "merge"
    /\ merged_df' = prepare_merged_data(main_df, countries_df, nace_df,
                                        selected_origin, selected_dest)
    /\ pc' = "sectors"
    /\ UNCHANGED <<warning, main_df, countries_df, nace_df, selected_origin, selected_dest,
                   selected_row, selected_col, num_flows, sector_filtered_df,
                   arc_df, flow_summary, bubble_df, rendered>>

\* lines 210-266: the sector selections and their emptiness checks
SelectSectors ==
    /\ pc = "sectors"
    /\ \E sr \in SUBSET row_name_options(merged_df) :
       \E sc \in SUBSET col_name_options(merged_df) :
        /\ selected_row' = sr
        /\ selected_col' = sc
        /\ IF sr = {} THEN Stop("Please select at least one origin sector.")
           ELSE IF sc = {} THEN Stop("Please select at least one destination sector.")
           ELSE pc' = "display" /\ UNCHANGED warning
    /\ UNCHANGED <<main_df, countries_df, nace_df, selected_origin, selected_dest, merged_df,
                   num_flows, sector_filtered_df, arc_df, flow_summary, bubble_df, rendered>>

\* variant: the empty-result check is missing
ApplySectorFilter_unchecked ==
    /\ pc = "display"
    /\ \E k \in MinNumFlows..Min2(MaxNumFlows, MaxTopN) : num_flows' = k
    /\ sector_filtered_df' = sector_filter(merged_df, selected_row, selected_col)
    /\ pc' = "rank"
    /\ UNCHANGED <<warning, main_df, countries_df, nace_df, selected_origin, selected_dest,
                   merged_df, selected_row, selected_col, arc_df, flow_summary, bubble_df,
                   rendered>>

\* lines 268-288: the number of flows, the sector filter and the empty-result check
ApplySectorFilter ==
    /\ pc = "display"
    /\ \E k \in MinNumFlows..Min2(MaxNumFlows, MaxTopN) : num_flows' = k
    /\ sector_filtered_df' = sector_filter(merged_df, selected_row, selected_col)
    /\ IF sector_filtered_df' = << >>
       THEN Stop("No data available for the selected filters. Please adjust your selections.")
       ELSE pc' = "rank" /\ UNCHANGED warning
    /\ UNCHANGED <<main_df, countries_df, nace_df, selected_origin, selected_dest, merged_df,
                   selected_row, selected_col, arc_df, flow_summary, bubble_df, rendered>>

\* line 347
GetTopFlows ==
    /\ pc = "rank"
    /\ LET res == get_top_flows_global(merged_df, selected_row, selected_col, num_flows)
       IN  arc_df' = res.detail /\ flow_summary' = res.summary
    /\ pc' = "bubbles"
    /\ UNCHANGED <<warning, main_df, countries_df, nace_df, selected_origin, selected_dest,
                   merged_df, selected_row, selected_col, num_flows, sector_filtered_df,
                   bubble_df, rendered>>

\* lines 349-359
PrepareBubbles ==
    /\ pc = "bubbles"
    /\ bubble_df' = prepare_bubbles(sector_filtered_df, flow_summary)
    /\ pc' = "arcs"
    /\ UNCHANGED <<warning, main_df, countries_df, nace_df, selected_origin, selected_dest,
                   merged_df, selected_row, selected_col, num_flows, sector_filtered_df,
                   arc_df, flow_summary, rendered>>

\* lines 393-410
AddArcWidths ==
    /\ pc = "arcs"
    /\ IF arc_df # << >> /\ flow_summary # << >>
       THEN IF arc_width_fails(arc_df, flow_summary)
            THEN pc' = "error" /\ UNCHANGED arc_df
            ELSE pc' = "render" /\ arc_df' = add_arc_widths(arc_df, flow_summary)
       ELSE pc' = "render" /\ UNCHANGED arc_df
    /\ UNCHANGED <<warning, main_df, countries_df, nace_df, selected_origin, selected_dest,
                   merged_df, selected_row, selected_col, num_flows, sector_filtered_df,
                   flow_summary, bubble_df, rendered>>

\* lines 412-485: the layers are built from arc_df and bubble_df and drawn
Render ==
    /\ pc = "render"
    /\ rendered' = TRUE
    /\ pc' = "done"
    /\ UNCHANGED <<warning, main_df, countries_df, nace_df, selected_origin, selected_dest,
                   merged_df, selected_row, selected_col, num_flows, sector_filtered_df,
                   arc_df, flow_summary, bubble_df>>

Next ==
    \/ SelectCountries
    \/ PrepareMergedData
    \/ SelectSectors
    \/ ApplySectorFilter
    \/ GetTopFlows
    \/ PrepareBubbles
    \/ AddArcWidths
    \/ Render

NextMerge == SelectCountries \/ PrepareMergedData

NextRank ==
    \/ SelectSectors
    \/ ApplySectorFilter
    \/ GetTopFlows
    \/ PrepareBubbles
    \/ AddArcWidths
    \/ Render

Spec == Init /\ [][Next]_vars

SpecMerge == InitMerge /\ [][NextMerge]_vars

SpecRank == InitRank /\ [][NextRank]_vars

(***************************************************************************)
(* Properties.                                                              *)
(***************************************************************************)
\* the sector-filtered rows of the enriched table
SectorRows ==
    SelectSeq(merged_df, LAMBDA r : r.rowIi_name \in selected_row /\ r.colIi_name \in selected_col)

\* the sum of value over the rows of pair p
PairTotal(df, p) == SumObs(SelectSeq(df, LAMBDA r : Pair(r) = p))

\* the pairs of the first num_flows entries of the descending ranking of all rows
GlobalTopPairs ==
    PairsOf(HeadN(sort_values_desc(groupby_pair_sum(merged_df)), num_flows))

\* the pairs of the sector-filtered rows joined against the global top pairs
CandidatePairs == PairsOf(SectorRows) \cap GlobalTopPairs

\* summary is a descending ranking of the k largest pair totals of df
IsTopRanking(summary, df, k) ==
    /\ Len(summary) = Min2(k, Cardinality(PairsOf(df)))
    /\ \A i \in 1..Len(summary) :
          /\ Pair(summary[i]) \in PairsOf(df)
          /\ summary[i].obsValue = PairTotal(df, Pair(summary[i]))
    /\ \A i, j \in 1..Len(summary) :
          i < j => /\ Pair(summary[i]) # Pair(summary[j])
                   /\ summary[i].obsValue >= summary[j].obsValue
    /\ \A p \in PairsOf(df) \ PairsOf(summary) :
          \A i \in 1..Len(summary) : PairTotal(df, p) <= summary[i].obsValue

\* get_top_flows_global has returned and arc_df is still its detail table
Ranked == pc \in {"bubbles", "arcs"}

\* C1: when the sector-filtered rows joined against the global top pairs are
\* empty or cover fewer than 5 distinct pairs, the returned ranking is the
\* sector-local one (pair sums over the sector-filtered rows, descending,
\* first num_flows) and the detail rows are exactly the sector-filtered rows
\* of the ranked pairs.
C1_FallbackIsSectorLocal ==
    (Ranked /\ Cardinality(CandidatePairs) < FallbackPairs) =>
        /\ IsTopRanking(flow_summary, SectorRows, num_flows)
        /\ arc_df = SelectSeq(SectorRows, LAMBDA r : Pair(r) \in PairsOf(flow_summary))

\* a fallback at num_flows >= 5 whose ranking holds a pair outside the global top
C1_Witness ==
    /\ Ranked
    /\ num_flows >= FallbackPairs
    /\ Cardinality(CandidatePairs) < FallbackPairs
    /\ ~(PairsOf(flow_summary) \subseteq GlobalTopPairs)

\* C2: when the candidates cover at least 5 distinct pairs, the ranked pairs
\* are exactly the global top pairs that have a sector-filtered row, and each
\* total is the sum over the sector-filtered rows of the pair only.
C2_NonFallbackUsesGlobalPairs ==
    (Ranked /\ Cardinality(CandidatePairs) >= FallbackPairs) =>
        /\ PairsOf(flow_summary) = CandidatePairs
        /\ Len(flow_summary) = Cardinality(CandidatePairs)
        /\ \A i \in 1..Len(flow_summary) :
              flow_summary[i].obsValue = PairTotal(SectorRows, Pair(flow_summary[i]))

\* the global selection drops a sector-filtered pair, and a total differs from
\* the pair's global sum
C2_Witness ==
    /\ Ranked
    /\ Cardinality(CandidatePairs) >= FallbackPairs
    /\ ~(PairsOf(SectorRows) \subseteq GlobalTopPairs)
    /\ \E i \in 1..Len(flow_summary) :
          flow_summary[i].obsValue # PairTotal(merged_df, Pair(flow_summary[i]))

\* C3 as stated: the ranking has at most num_flows members and is strictly
\* sorted by total descending.
C3_StrictlySorted ==
    Ranked =>
        /\ Len(flow_summary) <= num_flows
        /\ \A i, j \in 1..Len(flow_summary) :
              i < j => flow_summary[i].obsValue > flow_summary[j].obsValue

\* C3 (amended): the ranking has at most num_flows members and its totals
\* never increase from one entry to the next; equal totals may be adjacent.
C3_SortedDescending ==
    Ranked =>
        /\ Len(flow_summary) <= num_flows
        /\ \A i, j \in 1..Len(flow_summary) :
              i < j => flow_summary[i].obsValue >= flow_summary[j].obsValue

\* a ranking cut to num_flows entries, with two equal totals and two different ones
C3_Witness ==
    /\ Ranked
    /\ Len(flow_summary) = num_flows
    /\ Cardinality(PairsOf(SectorRows)) > num_flows
    /\ \E i, j \in 1..Len(flow_summary) :
          i < j /\ flow_summary[i].obsValue = flow_summary[j].obsValue
    /\ \E i, j \in 1..Len(flow_summary) :
          flow_summary[i].obsValue > flow_summary[j].obsValue

\* C9: for num_flows in 1..4 the candidates never cover 5 pairs, so the result
\* is always the sector-local ranking.
C9_SmallTopNFallsBack ==
    (Ranked /\ num_flows < FallbackPairs) =>
        /\ Cardinality(CandidatePairs) < FallbackPairs
        /\ IsTopRanking(flow_summary, SectorRows, num_flows)
        /\ PairsOf(arc_df) = PairsOf(flow_summary)

\* num_flows = 4 with at least 5 sector-filtered pairs, where the global top
\* pairs are not the sector-local ones
C9_Witness ==
    /\ Ranked
    /\ num_flows = FallbackPairs - 1
    /\ Cardinality(PairsOf(SectorRows)) >= FallbackPairs
    /\ Cardinality(CandidatePairs) = num_flows
    /\ PairsOf(flow_summary) # CandidatePairs

\* the bubbles exist and the map is about to be, or has been, drawn
Bubbled == pc \in {"arcs", "render", "done"}

\* the rows of df whose destination is area d
RowsTo(df, d) == SelectSeq(df, LAMBDA r : r.counterpartArea = d)

\* C4 as stated: every bubble's value is the sum of value over the displayed
\* flow rows (arc_df) into its destination.
C4_BubbleSumsDisplayedFlows ==
    Bubbled =>
        \A i \in 1..Len(bubble_df) :
            bubble_df[i].obsValue = SumObs(RowsTo(arc_df, bubble_df[i].counterpartArea))

\* C4 (amended): every bubble belongs to the destination of a ranked pair and
\* its value is the sum of value over all sector-filtered rows into that
\* destination, rows of pairs outside the ranking included.
C4_BubbleSumsSectorRows ==
    Bubbled =>
        \A i \in 1..Len(bubble_df) :
            /\ \E j \in 1..Len(flow_summary) :
                  flow_summary[j].counterpartArea = bubble_df[i].counterpartArea
            /\ bubble_df[i].obsValue = SumObs(RowsTo(SectorRows, bubble_df[i].counterpartArea))

\* a bubble larger than the displayed flows into it, beside a sector-filtered
\* destination that is not displayed
C4_Witness ==
    /\ pc = "done"
    /\ \E i \in 1..Len(bubble_df) :
          bubble_df[i].obsValue > SumObs(RowsTo(arc_df, bubble_df[i].counterpartArea))
    /\ \E k \in 1..Len(sector_filtered_df) :
          /\ sector_filtered_df[k].dest_lat # NaN
          /\ \A j \in 1..Len(flow_summary) :
                flow_summary[j].counterpartArea # sector_filtered_df[k].counterpartArea

\* the arc widths are attached
Scaled == pc \in {"render", "done"}

\* C5: the arc width of a displayed row is a function of its pair's ranked
\* total, non-decreasing in it, within [1,4], and 1 for every row when all
\* ranked totals are equal.
C5_ArcWidthMonotoneBounded ==
    Scaled =>
        /\ \A i \in 1..Len(arc_df) :
              /\ arc_df[i].arc_width \in 1..4
              /\ \E j \in 1..Len(flow_summary) :
                    /\ Pair(flow_summary[j]) = Pair(arc_df[i])
                    /\ flow_summary[j].obsValue = arc_df[i].flow_total
        /\ \A i, j \in 1..Len(arc_df) :
              arc_df[i].flow_total <= arc_df[j].flow_total
                  => arc_df[i].arc_width <= arc_df[j].arc_width
        /\ (\A i, j \in 1..Len(flow_summary) :
                flow_summary[i].obsValue = flow_summary[j].obsValue)
              => \A i \in 1..Len(arc_df) : arc_df[i].arc_width = 1

\* widths 1, 4 and one in between in the same rendering
C5_Witness ==
    /\ pc = "done"
    /\ \E i, j, k \in 1..Len(arc_df) :
          /\ arc_df[i].arc_width = 1
          /\ arc_df[j].arc_width \in 2..3
          /\ arc_df[k].arc_width = 4

\* all ranked totals equal and above 1, every width 1
C5_WitnessEqual ==
    /\ pc = "done"
    /\ Len(flow_summary) > 1
    /\ \A i \in 1..Len(flow_summary) : flow_summary[i].obsValue = flow_summary[1].obsValue
    /\ flow_summary[1].obsValue > 1

\* C10: when rendering is reached both results of get_top_flows_global are
\* non-empty and cover the same pairs, so every displayed row finds its total
\* and gets a width.
C10_ResultsConsistent ==
    /\ Ranked =>
          /\ arc_df # << >>
          /\ flow_summary # << >>
          /\ PairsOf(arc_df) = PairsOf(flow_summary)
    /\ pc # "error"
    /\ Scaled =>
          \A i \in 1..Len(arc_df) :
              /\ "arc_width" \in DOMAIN arc_df[i]
              /\ arc_df[i].flow_total # NaN
              /\ arc_df[i].arc_width >= 1

\* a drawn map with several rows per ranked pair and sector-filtered pairs
\* outside the ranking
C10_Witness ==
    /\ pc = "done"
    /\ Len(arc_df) > Len(flow_summary)
    /\ PairsOf(arc_df) # PairsOf(SectorRows)

\* a table has no domestic row
NoSelfFlow(df) == \A i \in 1..Len(df) : df[i].refArea # df[i].counterpartArea

\* C6: no enriched row has origin = destination, whatever the origin and
\* destination filters, so none reaches the sector-filtered rows, the
\* displayed rows, the ranking or the bubble source.
C6_NoSelfFlows ==
    /\ NoSelfFlow(merged_df)
    /\ NoSelfFlow(sector_filtered_df)
    /\ NoSelfFlow(arc_df)
    /\ NoSelfFlow(flow_summary)

\* overlapping filters over a table with a domestic row, drawn
C6_Witness ==
    /\ pc = "done"
    /\ selected_origin \cap selected_dest # {}
    /\ \E i \in 1..Len(main_df) :
          /\ main_df[i].refArea = main_df[i].counterpartArea
          /\ main_df[i].refArea \in selected_origin \cap selected_dest

\* C8: ranking and rendering are reached only with all four selections and
\* the sector-filtered table non-empty; an empty one stops the run with a
\* warning before the ranking, and nothing is drawn.
C8_EmptyHalts ==
    /\ pc \notin {"countries", "stopped"} => selected_origin # {} /\ selected_dest # {}
    /\ pc \notin {"countries", "merge", "sectors", "stopped"} =>
          selected_row # {} /\ selected_col # {}
    /\ pc \in {"rank", "bubbles", "arcs", "render", "done", "error"} =>
          sector_filtered_df # << >> /\ SectorRows # << >>
    /\ pc = "stopped" =>
          /\ warning # ""
          /\ ~rendered
          /\ arc_df = << >> /\ flow_summary = << >> /\ bubble_df = << >>
    /\ rendered => pc = "done"

\* four non-empty selections whose intersection has no row: stopped
C8_Witness ==
    /\ pc = "stopped"
    /\ selected_origin # {} /\ selected_dest # {}
    /\ selected_row # {} /\ selected_col # {}
    /\ merged_df # << >>
    /\ sector_filtered_df = << >>

\* the flow rows that pass the origin, destination and domestic-flow filter
PassingRows ==
    SelectSeq(main_df, LAMBDA r : /\ r.refArea \in selected_origin
                                  /\ r.counterpartArea \in selected_dest
                                  /\ r.refArea # r.counterpartArea)

\* the flow columns of a row
FlowColumns(r) ==
    [refArea |-> r.refArea, counterpartArea |-> r.counterpartArea,
     rowIi |-> r.rowIi, colIi |-> r.colIi, obsValue |-> r.obsValue]

\* how many rows of df carry the flow columns b
CountOf(df, b) == NumRows(SelectSeq(df, LAMBDA r : FlowColumns(r) = b))

FlowRowsOf(df) == { FlowColumns(df[i]) : i \in 1..Len(df) }

\* the origin coordinates of every enriched row are those of the location of
\* its origin code, or missing when the code has no location
OriginCoordinatesMatch ==
    \A i \in 1..Len(merged_df) :
        LET r == merged_df[i]
        IN  IF \E k \in 1..Len(countries_df) : countries_df[k].code = r.refArea
            THEN \E k \in 1..Len(countries_df) :
                    /\ countries_df[k].code = r.refArea
                    /\ r.origin_lat = countries_df[k].lat
                    /\ r.origin_lon = countries_df[k].lon
            ELSE r.origin_lat = NaN /\ r.origin_lon = NaN

Merged == pc = "sectors"

\* C7 as stated: every flow row that passes the filter appears in the
\* enriched table, and origin coordinates are the matching location or missing.
C7_EveryPassingRowKept ==
    Merged =>
        /\ \A b \in FlowRowsOf(PassingRows) \cup FlowRowsOf(merged_df) :
              CountOf(merged_df, b) = CountOf(PassingRows, b)
        /\ OriginCoordinatesMatch

\* C7 (amended): when at most 500000 rows pass the filter each of them appears
\* in the enriched table; when more pass, exactly 500000 of them appear and no
\* dropped row has a larger value than a kept one; no row is dropped for a
\* missing location or sector name, and origin coordinates are the matching
\* location or missing.
C7_PassingRowsKeptUpToCeiling ==
    Merged =>
        /\ NumRows(PassingRows) <= SampleCeiling =>
              \A b \in FlowRowsOf(PassingRows) \cup FlowRowsOf(merged_df) :
                  CountOf(merged_df, b) = CountOf(PassingRows, b)
        /\ NumRows(PassingRows) > SampleCeiling =>
              /\ NumRows(merged_df) = SampleCeiling
              /\ \A b \in FlowRowsOf(PassingRows) \cup FlowRowsOf(merged_df) :
                    /\ CountOf(merged_df, b) <= CountOf(PassingRows, b)
                    /\ CountOf(merged_df, b) < CountOf(PassingRows, b) =>
                          \A i \in 1..Len(merged_df) : b.obsValue <= merged_df[i].obsValue
        /\ OriginCoordinatesMatch

\* more than 500000 passing rows, with rows of a located and of an unlocated
\* origin and a row of an unnamed sector in the enriched table
C7_Witness ==
    /\ Merged
    /\ NumRows(PassingRows) > SampleCeiling
    /\ \E i, j, k \in 1..Len(merged_df) :
          /\ merged_df[i].origin_lat = NaN
          /\ merged_df[j].origin_lat # NaN
          /\ merged_df[k].rowIi_name = NaNName

====
